---- MODULE Spec2Model ----
(***************************************************************************)
(* State-machine model of src/server.js: the in-memory chat map, the lazy  *)
(* upstream client, the history trimmer and the HTTP handlers.             *)
(*                                                                         *)
(* JavaScript strings are sequences of one-character strings, so that      *)
(* String.prototype.trim and the truthiness of "" are computed, not        *)
(* assumed.  A handler runs to completion between two awaits, so each      *)
(* action is one synchronous segment of a handler.                         *)
(***************************************************************************)
EXTENDS Integers, Sequences, FiniteSets, TLC

VARIABLES
    chats,        \* server.js:45   Map chatId -> messages[]
    openaiClient, \* server.js:27   0 = undefined, n = the n-th constructed client
    apiKey,       \* server.js:32   process.env.OPENAI_API_KEY is set
    pending,      \* POST requests suspended on the await of server.js:114
    nextId,       \* ghost: number of the next validated POST request
    res,          \* the response sent by the last step (NoRes when it sent none)
    sent,         \* the upstream call issued by the last step (NoSent when none)
    trimStage,    \* position of the trimHistory harness
    trimIn,       \* its input sequence
    trimOut,      \* trimHistory(trimIn)
    trimTwice     \* trimHistory(trimOut)

vars == <<chats, openaiClient, apiKey, pending, nextId, res, sent,
          trimStage, trimIn, trimOut, trimTwice>>

serverVars == <<chats, openaiClient, apiKey, pending, nextId, res, sent>>
trimVars == <<trimStage, trimIn, trimOut, trimTwice>>

-----------------------------------------------------------------------------
(* Bounds of the model.                                                    *)

\* server.js:48 sets MAX_TURNS = 20; the model scales it down so that
\* trimming is reached by a handful of requests.
MAX_TURNS == 2
\* validated POST requests in one behaviour of Spec
MaxReqs == 3
\* POST requests suspended on the upstream call at the same time
MaxInFlight == 2
\* successive requests of SpecSeq (the "MAX_TURNS + 5" of the scenario)
SeqReqs == MAX_TURNS + 5
\* longest input of the trimHistory harness
MaxTrimLen == 2 * MAX_TURNS + 2

-----------------------------------------------------------------------------
(* JavaScript values and strings.                                          *)

Undefined == [t |-> "undefined", v |-> <<>>]
Str(s) == [t |-> "string", v |-> s]
Num(digits) == [t |-> "number", v |-> digits]

\* typeof x
TypeOf(x) == x.t

\* mutant of Truthy: only a missing value is refused
TruthyDefinedOnly(x) == x.t # "undefined"

\* ToBoolean(x): undefined, "" and 0 are falsy
Truthy(x) ==
    CASE x.t = "undefined" -> FALSE
      [] x.t = "string" -> x.v # <<>>
      [] x.t = "number" -> x.v # <<"0">>

WhiteSpace == {" ", "\n"}

RECURSIVE TrimStart(_)
TrimStart(s) ==
    IF s # <<>> /\ Head(s) \in WhiteSpace THEN TrimStart(Tail(s)) ELSE s

RECURSIVE TrimEnd(_)
TrimEnd(s) ==
    IF s # <<>> /\ s[Len(s)] \in WhiteSpace
    THEN TrimEnd(SubSeq(s, 1, Len(s) - 1))
    ELSE s

\* String.prototype.trim
StrTrim(s) == TrimEnd(TrimStart(s))

-----------------------------------------------------------------------------
(* Chat state.                                                             *)

SYSTEM_PROMPT == <<"S", "P">>
FALLBACK == <<"n", "o">>

\* rid is a ghost field: the request that appended the message (0: none)
Msg(role, content, rid) == [role |-> role, content |-> content, rid |-> rid]
SystemMessage == Msg("system", SYSTEM_PROMPT, 0)

NoMap == [x \in {} |-> <<>>]

\* Map.prototype.set
MapSet(m, k, v) == [x \in DOMAIN m \cup {k} |-> IF x = k THEN v ELSE m[x]]

\* Map.prototype.delete
MapDelete(m, k) == [x \in DOMAIN m \ {k} |-> m[x]]

\* mutant of getOrCreateChat: the has() test is missing
getOrCreateChatReset(m, chatId) == MapSet(m, chatId, <<SystemMessage>>)

\* the map after getOrCreateChat(chatId); the returned history is its
\* entry for chatId
getOrCreateChat(m, chatId) ==
    IF chatId \notin DOMAIN m THEN MapSet(m, chatId, <<SystemMessage>>) ELSE m

NotSystem(m) == m.role # "system"

\* messages.filter((m) => m.role !== "system")
RECURSIVE FilterNotSystem(_)
FilterNotSystem(s) ==
    IF s = <<>> THEN <<>>
    ELSE IF NotSystem(Head(s)) THEN <<Head(s)>> \o FilterNotSystem(Tail(s))
    ELSE FilterNotSystem(Tail(s))

\* Array.prototype.slice(start) with a negative start
SliceFromEnd(s, n) ==
    LET from == IF Len(s) - n < 0 THEN 0 ELSE Len(s) - n
    IN  SubSeq(s, from + 1, Len(s))

\* mutants of trimHistory
trimHistoryNoSystem(messages) == SliceFromEnd(messages, MAX_TURNS * 2)

trimHistoryOffByOne(messages) ==
    LET system == IF messages # <<>> /\ messages[1].role = "system"
                  THEN <<messages[1]>> ELSE <<>>
    IN  system \o SliceFromEnd(FilterNotSystem(messages), MAX_TURNS * 2 + 1)

trimHistoryOldest(messages) ==
    LET system == IF messages # <<>> /\ messages[1].role = "system"
                  THEN <<messages[1]>> ELSE <<>>
        rest == FilterNotSystem(messages)
    IN  system \o SubSeq(rest, 1, IF Len(rest) < MAX_TURNS * 2
                                   THEN Len(rest) ELSE MAX_TURNS * 2)

trimHistoryAssumeSystem(messages) ==
    LET system == IF messages # <<>> /\ messages[1].role = "system"
                  THEN <<messages[1]>> ELSE <<>>
        rest == IF messages = <<>> THEN <<>> ELSE Tail(messages)
    IN  system \o SliceFromEnd(rest, MAX_TURNS * 2)

trimHistory(messages) ==
    LET system == IF messages # <<>> /\ messages[1].role = "system"
                  THEN <<messages[1]>> ELSE <<>>
        rest == FilterNotSystem(messages)
        maxMessages == MAX_TURNS * 2
        trimmedRest == SliceFromEnd(rest, maxMessages)
    IN  system \o trimmedRest

-----------------------------------------------------------------------------
(* Upstream client.                                                        *)

\* mutant of getOpenAI: a client is constructed at every call
getOpenAIAlwaysNew(client, key) ==
    IF key THEN [client |-> client + 1, threw |-> FALSE]
           ELSE [client |-> 0, threw |-> TRUE]

\* getOpenAI(): the client after the call, and whether the constructor
\* threw (the OpenAI constructor throws when no API key is given)
getOpenAI(client, key) ==
    IF client = 0
    THEN IF key THEN [client |-> 1, threw |-> FALSE]
                ELSE [client |-> 0, threw |-> TRUE]
    ELSE [client |-> client, threw |-> FALSE]

\* what chat.completions.create settled with
NoCall == [kind |-> "none", shape |-> "null", content |-> <<>>]
Rejected == [kind |-> "rejected", shape |-> "null", content |-> <<>>]
Resolved(shape, content) ==
    [kind |-> "resolved", shape |-> shape, content |-> content]

\* completion?.choices?.[0]?.message?.content
ContentOf(completion) ==
    IF completion.shape = "content" THEN Str(completion.content) ELSE Undefined

\* mutant of ReplyOf: the content is not trimmed before the fallback test
ReplyOfNoTrim(completion) ==
    LET c == ContentOf(completion)
    IN  IF Truthy(c) THEN c.v ELSE FALLBACK

\* completion?.choices?.[0]?.message?.content?.trim() || fallback
ReplyOf(completion) ==
    LET c == ContentOf(completion)
        trimmed == IF c.t = "undefined" THEN Undefined ELSE Str(StrTrim(c.v))
    IN  IF Truthy(trimmed) THEN trimmed.v ELSE FALLBACK

\* no chat.completions.create call in this step
NoSent == [rid |-> 0, chatId |-> <<>>, client |-> 0, messages |-> <<>>]

\* mutant of CompletionMessages: only the newest message is sent
CompletionMessagesLastOnly(m, chatId) == <<m[chatId][Len(m[chatId])]>>

\* messages: chats.get(chatId), the argument of chat.completions.create
CompletionMessages(m, chatId) == m[chatId]

-----------------------------------------------------------------------------
(* Inputs.                                                                 *)

C1 == <<"c", "1">>
C2 == <<"c", "2">>
ChatIds == {C1, C2}
Hi == <<"h", "i">>

ChatIdInputs == {Undefined, Str(<<>>), Num(<<"7">>)} \cup {Str(c) : c \in ChatIds}
MessageInputs == {Undefined, Str(<<>>), Num(<<"0">>), Str(Hi)}
Bodies == [chatId : ChatIdInputs, message : MessageInputs]

Completions ==
    {Resolved("nochoices", <<>>),
     Resolved("nullcontent", <<>>), Resolved("content", <<>>),
     Resolved("content", <<" ", "\n">>), Resolved("content", <<"o", "k">>),
     Resolved("content", <<" ", "o", "k", "\n">>)}
Outcomes == {Rejected} \cup Completions

-----------------------------------------------------------------------------
(* Responses.                                                              *)

NoBody == [chatId |-> Undefined, message |-> Undefined]

Response(op, body, chatId, rid, upstream, status) ==
    [op |-> op, body |-> body, chatId |-> chatId, rid |-> rid,
     upstream |-> upstream, status |-> status,
     error |-> "", reply |-> <<>>, ok |-> FALSE, chatIds |-> {}, text |-> ""]

NoRes == Response("none", NoBody, <<>>, 0, NoCall, 0)

ErrorRes(op, body, chatId, rid, upstream, status, error) ==
    [Response(op, body, chatId, rid, upstream, status) EXCEPT !.error = error]

-----------------------------------------------------------------------------
(* Handlers.                                                               *)

\* GET /healthz
Healthz ==
    /\ res' = [Response("GET /healthz", NoBody, <<>>, 0, NoCall, 200)
                 EXCEPT !.text = "ok"]
    /\ sent' = NoSent
    /\ UNCHANGED <<chats, openaiClient, apiKey, pending, nextId>>
    /\ UNCHANGED trimVars

\* the response of DELETE /api/chat/:chatId on the map m
DeleteResponse(m, chatId) ==
    IF chatId = <<>>
    THEN ErrorRes("DELETE", NoBody, chatId, 0, NoCall, 400, "chatId is required")
    ELSE IF chatId \notin DOMAIN m
    THEN ErrorRes("DELETE", NoBody, chatId, 0, NoCall, 404, "Chat not found")
    ELSE [Response("DELETE", NoBody, chatId, 0, NoCall, 200) EXCEPT !.ok = TRUE]

\* mutant of DeleteMap: the whole map is cleared
DeleteMapClear(m, chatId) ==
    IF chatId # <<>> /\ chatId \in DOMAIN m THEN NoMap ELSE m

\* the map after DELETE /api/chat/:chatId
DeleteMap(m, chatId) ==
    IF chatId # <<>> /\ chatId \in DOMAIN m THEN MapDelete(m, chatId) ELSE m

\* DELETE /api/chat/:chatId
DeleteChat(chatId) ==
    /\ res' = DeleteResponse(chats, chatId)
    /\ chats' = DeleteMap(chats, chatId)
    \* ghost: the suspended requests of this chat saw it deleted
    /\ pending' = {IF p.chatId = chatId /\ chatId \in DOMAIN chats
                   THEN [p EXCEPT !.deleted = TRUE] ELSE p : p \in pending}
    /\ sent' = NoSent
    /\ UNCHANGED <<openaiClient, apiKey, nextId>>
    /\ UNCHANGED trimVars

\* the response of GET /api/chats on the map m
ListResponse(m) ==
    [Response("GET /api/chats", NoBody, <<>>, 0, NoCall, 200)
       EXCEPT !.chatIds = DOMAIN m]

\* GET /api/chats
ListChats ==
    /\ res' = ListResponse(chats)
    /\ sent' = NoSent
    /\ UNCHANGED <<chats, openaiClient, apiKey, pending, nextId>>
    /\ UNCHANGED trimVars

\* mutant of PushUser: the user message is put right after the system prompt
PushUserFront(m, chatId, message, rid) ==
    LET created == getOrCreateChat(m, chatId)
        history == <<created[chatId][1], Msg("user", message, rid)>>
                     \o Tail(created[chatId])
    IN  MapSet(created, chatId, trimHistory(history))

\* mutant of PushUser: the user message is pushed onto a copy
PushUserOnCopy(m, chatId, message, rid) == getOrCreateChat(m, chatId)

\* the map after the user message of request rid is pushed and trimmed
\* (server.js:108-111)
PushUser(m, chatId, message, rid) ==
    LET created == getOrCreateChat(m, chatId)
        history == Append(created[chatId], Msg("user", message, rid))
    IN  MapSet(created, chatId, trimHistory(history))

\* mutant of PushAssistant: the reply is pushed onto the history as it was
\* when the request pushed its user message
PushAssistantStale(m, chatId, reply, rid) ==
    LET h == m[chatId]
        own == {i \in 1..Len(h) : h[i].rid = rid /\ h[i].role = "user"}
        cut == IF own = {} THEN Len(h) ELSE CHOOSE i \in own : TRUE
    IN  MapSet(m, chatId,
               trimHistory(Append(SubSeq(h, 1, cut),
                                  Msg("assistant", reply, rid))))

\* mutant of PushAssistant: the history is stored without the second trim
PushAssistantNoTrim(m, chatId, reply, rid) ==
    MapSet(m, chatId, Append(m[chatId], Msg("assistant", reply, rid)))

\* the map after the assistant reply of request rid is pushed and trimmed
\* (server.js:123-125); only called when the chat is in the map
PushAssistant(m, chatId, reply, rid) ==
    LET updated == Append(m[chatId], Msg("assistant", reply, rid))
    IN  MapSet(m, chatId, trimHistory(updated))

\* POST /api/chat, from the start of the handler to its await (or to its
\* response when it does not reach the await)
PostBegin(body) ==
    LET chatId == body.chatId
        message == body.message
    IN
    /\ UNCHANGED apiKey
    /\ UNCHANGED trimVars
    /\ IF ~Truthy(chatId) \/ TypeOf(chatId) # "string"
       THEN /\ res' = ErrorRes("POST", body, <<>>, 0, NoCall, 400,
                               "chatId is required")
            /\ sent' = NoSent
            /\ UNCHANGED <<chats, openaiClient, pending, nextId>>
       ELSE IF ~Truthy(message) \/ TypeOf(message) # "string"
       THEN /\ res' = ErrorRes("POST", body, <<>>, 0, NoCall, 400,
                               "message is required")
            /\ sent' = NoSent
            /\ UNCHANGED <<chats, openaiClient, pending, nextId>>
       ELSE LET got == getOpenAI(openaiClient, apiKey)
                stored == PushUser(chats, chatId.v, message.v, nextId)
            IN  /\ chats' = stored
                /\ nextId' = nextId + 1
                /\ openaiClient' = got.client
                /\ IF got.threw
                   THEN /\ res' = ErrorRes("POST", body, chatId.v, nextId,
                                           NoCall, 500, "Server error")
                        /\ sent' = NoSent
                        /\ UNCHANGED pending
                   ELSE /\ res' = NoRes
                        /\ sent' = [rid |-> nextId, chatId |-> chatId.v,
                                    client |-> got.client,
                                    messages |->
                                      CompletionMessages(stored, chatId.v)]
                        /\ pending' = pending \cup
                             {[rid |-> nextId, chatId |-> chatId.v,
                               body |-> body, client |-> got.client,
                               calls |-> 1, deleted |-> FALSE]}

\* mutant of PostResume: a rejected call is issued once more
PostResumeRetry(p, outcome) ==
    /\ p \in pending
    /\ UNCHANGED <<openaiClient, apiKey, nextId>>
    /\ UNCHANGED trimVars
    /\ IF outcome.kind = "rejected"
       THEN IF p.calls < 2
            THEN /\ pending' = (pending \ {p}) \cup {[p EXCEPT !.calls = 2]}
                 /\ res' = NoRes
                 /\ sent' = [rid |-> p.rid, chatId |-> p.chatId,
                             client |-> p.client, messages |-> <<>>]
                 /\ UNCHANGED chats
            ELSE /\ pending' = pending \ {p}
                 /\ sent' = NoSent
                 /\ res' = ErrorRes("POST", p.body, p.chatId, p.rid, outcome,
                                    500, "Server error")
                 /\ UNCHANGED chats
       ELSE /\ pending' = pending \ {p}
            /\ sent' = NoSent
            /\ IF p.chatId \notin DOMAIN chats
               THEN /\ res' = ErrorRes("POST", p.body, p.chatId, p.rid,
                                       outcome, 500, "Server error")
                    /\ UNCHANGED chats
               ELSE /\ chats' = PushAssistant(chats, p.chatId,
                                              ReplyOf(outcome), p.rid)
                    /\ res' = [Response("POST", p.body, p.chatId, p.rid,
                                        outcome, 200)
                                 EXCEPT !.reply = ReplyOf(outcome)]

\* POST /api/chat, from the settling of the awaited call to the response
PostResume(p, outcome) ==
    /\ p \in pending
    /\ pending' = pending \ {p}
    /\ sent' = NoSent
    /\ UNCHANGED <<openaiClient, apiKey, nextId>>
    /\ UNCHANGED trimVars
    /\ IF outcome.kind = "rejected"
       THEN /\ res' = ErrorRes("POST", p.body, p.chatId, p.rid, outcome, 500,
                               "Server error")
            /\ UNCHANGED chats
       ELSE LET reply == ReplyOf(outcome)
            IN  IF p.chatId \notin DOMAIN chats
                THEN \* chats.get(chatId) is undefined: updated.push throws
                     /\ res' = ErrorRes("POST", p.body, p.chatId, p.rid,
                                        outcome, 500, "Server error")
                     /\ UNCHANGED chats
                ELSE /\ chats' = PushAssistant(chats, p.chatId, reply, p.rid)
                     /\ res' = [Response("POST", p.body, p.chatId, p.rid,
                                         outcome, 200) EXCEPT !.reply = reply]

-----------------------------------------------------------------------------
(* The server under arbitrary interleaving of requests.                    *)

Init ==
    /\ chats = NoMap
    /\ openaiClient = 0
    /\ apiKey \in BOOLEAN
    /\ pending = {}
    /\ nextId = 1
    /\ res = NoRes
    /\ sent = NoSent
    /\ trimStage = "off"
    /\ trimIn = <<>>
    /\ trimOut = <<>>
    /\ trimTwice = <<>>

Post ==
    /\ nextId <= MaxReqs
    /\ Cardinality(pending) < MaxInFlight
    /\ \E body \in Bodies : PostBegin(body)

Settle == \E p \in pending : \E outcome \in Outcomes : PostResume(p, outcome)

Delete == \E chatId \in ChatIds : DeleteChat(chatId)

Next == Post \/ Settle \/ Delete \/ ListChats \/ Healthz

Spec == Init /\ [][Next]_vars

-----------------------------------------------------------------------------
(* Successive requests to one new chat, each answered before the next.     *)

InitSeq == Init /\ apiKey

SeqTexts == {Hi, <<"y", "o">>}

SeqPost ==
    /\ nextId <= SeqReqs
    /\ pending = {}
    /\ \E text \in SeqTexts : PostBegin([chatId |-> Str(C1), message |-> Str(text)])

SeqSettle == \E p \in pending : \E outcome \in Completions : PostResume(p, outcome)

NextSeq == SeqPost \/ SeqSettle

SpecSeq == InitSeq /\ [][NextSeq]_vars

-----------------------------------------------------------------------------
(* Concurrent requests that all succeed, without DELETE.                   *)

PostsPost ==
    /\ nextId <= MaxReqs
    /\ Cardinality(pending) < MaxInFlight
    /\ \E c \in ChatIds : \E text \in SeqTexts :
         PostBegin([chatId |-> Str(c), message |-> Str(text)])

PostsSettle ==
    \E p \in pending : \E outcome \in Completions : PostResume(p, outcome)

NextPosts == PostsPost \/ PostsSettle

SpecPosts == InitSeq /\ [][NextPosts]_vars

-----------------------------------------------------------------------------
(* trimHistory applied to arbitrary message sequences.                     *)

TrimMessages ==
    {Msg("system", SYSTEM_PROMPT, 0), Msg("user", Hi, 1), Msg("user", Hi, 2),
     Msg("assistant", FALLBACK, 1)}

SeqsUpTo(S, n) == UNION {[1..k -> S] : k \in 0..n}

InitTrim ==
    /\ chats = NoMap
    /\ openaiClient = 0
    /\ apiKey = TRUE
    /\ pending = {}
    /\ nextId = 1
    /\ res = NoRes
    /\ sent = NoSent
    /\ trimStage = "input"
    /\ trimIn \in SeqsUpTo(TrimMessages, MaxTrimLen)
    /\ trimOut = <<>>
    /\ trimTwice = <<>>

TrimOnce ==
    /\ trimStage = "input"
    /\ trimOut' = trimHistory(trimIn)
    /\ trimStage' = "trimmed"
    /\ UNCHANGED <<trimIn, trimTwice>>
    /\ UNCHANGED serverVars

TrimAgain ==
    /\ trimStage = "trimmed"
    /\ trimTwice' = trimHistory(trimOut)
    /\ trimStage' = "retrimmed"
    /\ UNCHANGED <<trimIn, trimOut>>
    /\ UNCHANGED serverVars

NextTrim == TrimOnce \/ TrimAgain

SpecTrim == InitTrim /\ [][NextTrim]_vars

-----------------------------------------------------------------------------
(* Properties.                                                             *)

NonSystemCount(h) == Cardinality({i \in 1..Len(h) : h[i].role # "system"})
SystemCount(h) == Cardinality({i \in 1..Len(h) : h[i].role = "system"})
MaxMessages == MAX_TURNS * 2

\* C1: in every reachable state every stored chat starts with the fixed
\* system prompt and holds exactly one system message.
C1_SystemPromptFirst ==
    \A c \in DOMAIN chats :
        /\ Len(chats[c]) >= 1
        /\ chats[c][1].role = "system"
        /\ chats[c][1].content = SYSTEM_PROMPT
        /\ SystemCount(chats[c]) = 1

\* a chat from which trimming has evicted the oldest user message, while a
\* request is suspended, still starts with the system prompt
C1_Witness ==
    \E c \in DOMAIN chats :
        /\ Len(chats[c]) = MaxMessages + 1
        /\ chats[c][1] = SystemMessage
        /\ chats[c][2].role = "assistant"
        /\ pending # {}

\* C2: in every state between handler steps every stored chat holds at
\* most MAX_TURNS*2 non-system messages.
C2_AtMostMaxMessages ==
    \A c \in DOMAIN chats : NonSystemCount(chats[c]) <= MaxMessages

\* a full chat whose first request's messages are all evicted
C2_Witness ==
    \E c \in DOMAIN chats :
        /\ NonSystemCount(chats[c]) = MaxMessages
        /\ \E i \in 1..Len(chats[c]) : chats[c][i].rid > 1
        /\ \A i \in 1..Len(chats[c]) : chats[c][i].rid # 1
        /\ \A d \in DOMAIN chats : d = c

C3_NonSystem(m) == m.role \in {"user", "assistant"}

\* C3: trimHistory returns the leading system message of its input, if
\* any, followed by the last MAX_TURNS*2 non-system messages of the input
\* in their order, and leaves the input as it was.
C3_TrimResult ==
    [][(trimStage = "input" /\ trimStage' = "trimmed") =>
         LET ns == SelectSeq(trimIn, C3_NonSystem)
             k == IF Len(ns) < MaxMessages THEN Len(ns) ELSE MaxMessages
             lead == IF Len(trimIn) > 0 /\ trimIn[1].role = "system"
                     THEN 1 ELSE 0
         IN  /\ trimIn' = trimIn
             /\ Len(trimOut') = lead + k
             /\ lead = 1 => trimOut'[1] = trimIn[1]
             /\ \A i \in 1..k : trimOut'[lead + i] = ns[Len(ns) - k + i]
             /\ NonSystemCount(trimOut') <= MaxMessages]_vars

\* an input without a leading system message, with a system message
\* further on and more than MAX_TURNS*2 other messages, has been trimmed
C3_Witness ==
    /\ trimStage = "trimmed"
    /\ Len(trimIn) > 0
    /\ trimIn[1].role # "system"
    /\ SystemCount(trimIn) > 0
    /\ NonSystemCount(trimIn) > MaxMessages
    /\ Len(trimOut) = MaxMessages

\* C4: trimming a trimmed sequence returns it unchanged.
C4_TrimIdempotent ==
    trimStage = "retrimmed" => trimTwice = trimOut

\* a sequence that the first trimming shortened has been trimmed twice
C4_Witness ==
    /\ trimStage = "retrimmed"
    /\ Len(trimOut) > 0
    /\ Len(trimOut) < Len(trimIn)
    /\ trimIn[1].role = "system"
    /\ NonSystemCount(trimIn) > MaxMessages

\* missing, not a string, or the empty string
C5_Refused(x) == x.t # "string" \/ Len(x.v) = 0

\* C5: a POST whose chatId is missing, empty or not a string answers 400
\* "chatId is required", otherwise one whose message is missing, empty or
\* not a string answers 400 "message is required"; the step leaves the chat
\* map (hence the listing), the client and the upstream calls as they were.
C5_ValidationRejects ==
    [][/\ res'.op = "POST" =>
            LET b == res'.body
                frame == /\ res'.status = 400
                         /\ chats' = chats
                         /\ ListResponse(chats').chatIds = ListResponse(chats).chatIds
                         /\ openaiClient' = openaiClient
                         /\ pending' = pending
            IN  /\ C5_Refused(b.chatId) =>
                     frame /\ res'.error = "chatId is required"
                /\ (~C5_Refused(b.chatId) /\ C5_Refused(b.message)) =>
                     frame /\ res'.error = "message is required"
       /\ \A p \in pending' :
            ~C5_Refused(p.body.chatId) /\ ~C5_Refused(p.body.message)]_vars

\* a POST naming a chat that does not exist, without a message, was refused
\* and neither the chat nor the client was created
C5_Witness ==
    /\ res.op = "POST"
    /\ res.status = 400
    /\ res.error = "message is required"
    /\ res.body.chatId = Str(C1)
    /\ C1 \notin DOMAIN chats
    /\ openaiClient = 0
    /\ apiKey

\* the response of a validated POST that failed at the upstream step
C6_UpstreamFailure(r) ==
    /\ r.op = "POST"
    /\ ~C5_Refused(r.body.chatId) /\ ~C5_Refused(r.body.message)
    /\ r.upstream.kind \in {"none", "rejected"}

C6_UserMessage(r) == Msg("user", r.body.message.v, r.rid)

C6_HasAssistant(m, rid) ==
    \E c \in DOMAIN m : \E i \in 1..Len(m[c]) :
        m[c][i].role = "assistant" /\ m[c][i].rid = rid

\* C6 as stated: when a validated POST fails at the upstream step the
\* response is 500 "Server error", the chat exists, the request's user
\* message is in its history and no assistant message was appended for it.
C6_AsStated ==
    C6_UpstreamFailure(res) =>
        /\ res.status = 500
        /\ res.error = "Server error"
        /\ res.chatId \in DOMAIN chats
        /\ \E i \in 1..Len(chats[res.chatId]) :
               chats[res.chatId][i] = C6_UserMessage(res)
        /\ ~C6_HasAssistant(chats, res.rid)

\* C6 amended: the failure answers 500 "Server error" and appends no
\* assistant message; when the constructor throws the chat exists and ends
\* with the user message; when the call rejects the step leaves the chat
\* map as it was, and if the chat was not deleted while the request was
\* suspended it exists and holds the user message unless trimming evicted it.
C6_NoRollback ==
    [][C6_UpstreamFailure(res') =>
         /\ res'.status = 500
         /\ res'.error = "Server error"
         /\ ~C6_HasAssistant(chats', res'.rid)
         /\ res'.upstream.kind = "none" =>
              /\ res'.chatId \in DOMAIN chats'
              /\ chats'[res'.chatId][Len(chats'[res'.chatId])] = C6_UserMessage(res')
         /\ res'.upstream.kind = "rejected" =>
              /\ chats' = chats
              /\ \A p \in pending \ pending' :
                   ~p.deleted =>
                     /\ p.chatId \in DOMAIN chats'
                     /\ \/ \E i \in 1..Len(chats'[p.chatId]) :
                             chats'[p.chatId][i] = C6_UserMessage(res')
                        \/ NonSystemCount(chats'[p.chatId]) = MaxMessages]_vars

\* the upstream call of a request rejected and its user message is stored
C6_Witness ==
    /\ C6_UpstreamFailure(res)
    /\ res.upstream.kind = "rejected"
    /\ res.status = 500
    /\ res.chatId \in DOMAIN chats
    /\ \E i \in 1..Len(chats[res.chatId]) :
           chats[res.chatId][i] = C6_UserMessage(res)

\* the call resolved without reply content, or with whitespace only
C7_NoContent(r) ==
    /\ r.op = "POST"
    /\ r.upstream.kind = "resolved"
    /\ \/ r.upstream.shape # "content"
       \/ \A i \in 1..Len(r.upstream.content) :
            r.upstream.content[i] \in {" ", "\n"}

\* C7: when the upstream call resolves without reply content the request
\* answers 200 with the fallback string, which is appended to the chat as
\* the assistant message.
C7_FallbackReply ==
    C7_NoContent(res) =>
        /\ res.status = 200
        /\ res.reply = FALLBACK
        /\ res.chatId \in DOMAIN chats
        /\ chats[res.chatId][Len(chats[res.chatId])] =
               Msg("assistant", FALLBACK, res.rid)

\* C8 as stated: a POST whose upstream call returns no usable reply content
\* answers 500 "Server error".
C8_AsStated ==
    C7_NoContent(res) => res.status = 500 /\ res.error = "Server error"

\* C8 amended: such a POST answers 200 with the fallback reply; it answers
\* 500 "Server error" only when its chat is no longer in the chat map.
C8_EmptyReplyIsNoError ==
    C7_NoContent(res) =>
        IF res.chatId \in DOMAIN chats
        THEN res.status = 200 /\ res.error = "" /\ res.reply = FALLBACK
        ELSE res.status = 500 /\ res.error = "Server error"

\* a call that resolved with whitespace only was answered with the fallback
C8_Witness ==
    /\ C7_NoContent(res)
    /\ res.upstream.shape = "content"
    /\ Len(res.upstream.content) > 0
    /\ res.status = 200
    /\ res.reply = FALLBACK

\* C9: DELETE of a stored chat answers 200 {ok:true} and removes that chat
\* only, so that a DELETE of it right after answers 404 and the listing
\* omits it; DELETE of an unknown chat answers 404 "Chat not found" and
\* leaves the chat map as it was.
C9_Delete ==
    [][res'.op = "DELETE" =>
         LET c == res'.chatId
         IN  IF c \in DOMAIN chats
             THEN /\ res'.status = 200
                  /\ res'.ok
                  /\ DOMAIN chats' = DOMAIN chats \ {c}
                  /\ \A d \in DOMAIN chats' : chats'[d] = chats[d]
                  /\ DeleteResponse(chats', c).status = 404
                  /\ c \notin ListResponse(chats').chatIds
             ELSE /\ res'.status = 404
                  /\ res'.error = "Chat not found"
                  /\ chats' = chats]_vars

\* a chat was deleted while another chat stays in the map
C9_Witness ==
    /\ res.op = "DELETE"
    /\ res.status = 200
    /\ res.ok
    /\ res.chatId \notin DOMAIN chats
    /\ DOMAIN chats # {}

\* C10: after n successive, successful POSTs to one new chat, the chat
\* holds the system prompt followed by the min(2n, MAX_TURNS*2) most recent
\* user and assistant messages in the order they were appended.
C10_SuccessiveRequests ==
    (pending = {} /\ nextId > 1) =>
        LET n == nextId - 1
            k == IF 2 * n < MaxMessages THEN 2 * n ELSE MaxMessages
        IN  /\ DOMAIN chats = {C1}
            /\ Len(chats[C1]) = k + 1
            /\ chats[C1][1] = SystemMessage
            /\ NonSystemCount(chats[C1]) = k
            /\ \A j \in 1..k :
                 /\ chats[C1][1 + j].rid = n - ((k - j) \div 2)
                 /\ chats[C1][1 + j].role =
                      IF (k - j) % 2 = 0 THEN "assistant" ELSE "user"

\* MAX_TURNS + 5 requests were answered and MAX_TURNS*2 messages are kept
C10_Witness ==
    /\ pending = {}
    /\ nextId = MAX_TURNS + 5 + 1
    /\ C1 \in DOMAIN chats
    /\ NonSystemCount(chats[C1]) = MaxMessages
    /\ chats[C1][2].rid = 5 + 1

\* the text between the first and the last non-whitespace character
C11_Text(content) ==
    LET solid == {i \in 1..Len(content) : content[i] \notin {" ", "\n"}}
    IN  IF solid = {} THEN <<>>
        ELSE SubSeq(content,
                    CHOOSE i \in solid : \A j \in solid : i <= j,
                    CHOOSE i \in solid : \A j \in solid : i >= j)

\* the upstream call of a validated POST resolved with non-empty text
C11_TextReply(r) ==
    /\ r.op = "POST"
    /\ r.upstream.kind = "resolved"
    /\ r.upstream.shape = "content"
    /\ C11_Text(r.upstream.content) # <<>>

\* C11: a validated POST whose upstream call returns non-empty text answers
\* 200 with that text, trimmed, and its chatId is listed afterwards; the
\* listing is always the set of chatIds in the chat map.
C11_ReplyAndListing ==
    /\ C11_TextReply(res) =>
         /\ res.status = 200
         /\ res.reply = C11_Text(res.upstream.content)
         /\ res.chatId \in ListResponse(chats).chatIds
    /\ res.op = "GET /api/chats" => res.chatIds = DOMAIN chats

\* C12: getOrCreateChat of a chatId not in the map inserts a sequence of
\* one message, the system prompt, and changes no other entry; of a chatId
\* in the map it changes nothing.
C12_GetOrCreate ==
    \A c \in ChatIds :
        LET m == getOrCreateChat(chats, c)
        IN  IF c \notin DOMAIN chats
            THEN /\ DOMAIN m = DOMAIN chats \cup {c}
                 /\ Len(m[c]) = 1
                 /\ m[c][1].role = "system"
                 /\ m[c][1].content = SYSTEM_PROMPT
                 /\ \A d \in DOMAIN chats : m[d] = chats[d]
            ELSE m = chats

\* a POST has just created one chat, which holds the system prompt and its
\* user message, while the other chat keeps a longer history
C12_Witness ==
    /\ sent.rid # 0
    /\ Len(chats[sent.chatId]) = 2
    /\ chats[sent.chatId][1] = SystemMessage
    /\ chats[sent.chatId][2].rid = sent.rid
    /\ \E d \in DOMAIN chats : d # sent.chatId /\ Len(chats[d]) > 2

\* C13: no client exists before the first validated POST reaches the
\* upstream step; at most one client is ever constructed, only by such a
\* POST, and every upstream call uses it.
C13_LazySingleClient ==
    [][/\ nextId = 1 => openaiClient = 0
       /\ openaiClient' \in {0, 1}
       /\ openaiClient # 0 => openaiClient' = openaiClient
       /\ openaiClient' # openaiClient =>
            nextId' = nextId + 1 /\ sent'.rid = nextId
       /\ \A p \in pending' : p.client = 1 /\ p.client = openaiClient'
       /\ sent'.rid # 0 => sent'.client = openaiClient']_vars

\* two requests are suspended on calls made through the one client
C13_Witness ==
    /\ openaiClient = 1
    /\ Cardinality(pending) = 2
    /\ \A p \in pending : p.client = 1
    /\ sent.rid = 2

\* C14: every upstream call is issued by a new request, a request has at
\* most one call, none when it is refused or the constructor throws, and a
\* rejected call is answered 500 in the same step without another call.
C14_NoRetries ==
    [][/\ \A p \in pending' : p.calls = 1
       /\ {p.rid : p \in pending'} \ {p.rid : p \in pending} \subseteq {nextId}
       /\ sent'.rid # 0 => sent'.rid = nextId /\ nextId' = nextId + 1
       /\ \A p \in pending : \A q \in pending' :
            (p.rid = q.rid) => sent'.rid # p.rid
       /\ res'.op = "POST" =>
            /\ sent' = NoSent
            /\ \A p \in pending' : p.rid # res'.rid
            /\ res'.upstream.kind = "rejected" => res'.status = 500
            /\ res'.upstream.kind = "none" => res'.status \in {400, 500}]_vars

\* a call was rejected and answered 500 while another request stays
\* suspended on its own single call
C14_Witness ==
    /\ res.op = "POST"
    /\ res.upstream.kind = "rejected"
    /\ res.status = 500
    /\ sent = NoSent
    /\ \E p \in pending : p.calls = 1 /\ p.rid # res.rid

\* C15: the message sequence passed to the upstream call is the chat's
\* stored history at that moment: it starts with the system prompt, ends
\* with this request's user message and holds at most MAX_TURNS*2
\* non-system messages.
C15_SentHistory ==
    sent.rid # 0 =>
        /\ sent.chatId \in DOMAIN chats
        /\ sent.messages = chats[sent.chatId]
        /\ sent.messages[1].role = "system"
        /\ sent.messages[1].content = SYSTEM_PROMPT
        /\ sent.messages[Len(sent.messages)].role = "user"
        /\ sent.messages[Len(sent.messages)].rid = sent.rid
        /\ \E p \in pending :
             /\ p.rid = sent.rid
             /\ sent.messages[Len(sent.messages)].content = p.body.message.v
        /\ NonSystemCount(sent.messages) <= MaxMessages

\* a call was issued with a history from which trimming evicted a message
C15_Witness ==
    /\ sent.rid # 0
    /\ NonSystemCount(sent.messages) = MaxMessages
    /\ sent.messages[2].role = "assistant"

\* C16: while two requests A and B of one chat are both suspended, A
\* first, whatever the chat holds of them is their user messages, A's
\* before B's, and no reply of A; so B's user message lands between A's
\* user message and A's reply.
C16_SuspendedOrder ==
    \A a \in pending : \A b \in pending :
        (a.chatId = b.chatId /\ a.rid < b.rid /\ a.chatId \in DOMAIN chats) =>
            LET h == chats[a.chatId]
            IN  /\ \A i \in 1..Len(h) :
                     h[i].rid \in {a.rid, b.rid} => h[i].role = "user"
                /\ \A i \in 1..Len(h) : \A j \in 1..Len(h) :
                     (h[i].rid = a.rid /\ h[j].rid = b.rid) => i < j

\* the history holds the user messages of two suspended requests side by
\* side, with no assistant message between them
C16_Witness ==
    \E a \in pending : \E b \in pending :
        /\ a.rid < b.rid
        /\ a.chatId = b.chatId
        /\ a.chatId \in DOMAIN chats
        /\ \E i \in 1..(Len(chats[a.chatId]) - 1) :
             /\ chats[a.chatId][i].role = "user"
             /\ chats[a.chatId][i].rid = a.rid
             /\ chats[a.chatId][i + 1].role = "user"
             /\ chats[a.chatId][i + 1].rid = b.rid

C17_Places(h, rid, role) ==
    {i \in 1..Len(h) : h[i].rid = rid /\ h[i].role = role}

\* C17: without DELETE, once all of at most MAX_TURNS concurrent, successful
\* requests are answered, exactly one chat holds each request's user message
\* and reply, each once, the reply after the user message.
C17_NoLostUpdate ==
    (pending = {} /\ 2 * (nextId - 1) <= MaxMessages) =>
        \A r \in 1..(nextId - 1) :
            \E c \in DOMAIN chats :
                /\ Cardinality(C17_Places(chats[c], r, "user")) = 1
                /\ Cardinality(C17_Places(chats[c], r, "assistant")) = 1
                /\ \A i \in C17_Places(chats[c], r, "user") :
                     \A j \in C17_Places(chats[c], r, "assistant") : i < j
                /\ \A d \in DOMAIN chats \ {c} :
                     \A i \in 1..Len(chats[d]) : chats[d][i].rid # r

\* two requests of one chat interleaved and both were answered: the
\* history is user 1, user 2, reply 2, reply 1
C17_Witness ==
    /\ pending = {}
    /\ nextId = 3
    /\ C1 \in DOMAIN chats
    /\ Len(chats[C1]) = 5
    /\ chats[C1][2].rid = 1 /\ chats[C1][2].role = "user"
    /\ chats[C1][3].rid = 2 /\ chats[C1][3].role = "user"
    /\ chats[C1][4].rid = 2 /\ chats[C1][4].role = "assistant"
    /\ chats[C1][5].rid = 1 /\ chats[C1][5].role = "assistant"

\* C18: a validated POST whose upstream call succeeds answers 200 and its
\* reply is stored in the chat, whatever ran while it was suspended; a 500
\* means the constructor threw or the call rejected.
C18_SuccessAnswers200 ==
    /\ (res.op = "POST" /\ res.upstream.kind = "resolved") =>
         /\ res.status = 200
         /\ res.chatId \in DOMAIN chats
         /\ \E i \in 1..Len(chats[res.chatId]) :
              chats[res.chatId][i] = Msg("assistant", res.reply, res.rid)
    /\ (res.op = "POST" /\ res.status = 500) =>
         res.upstream.kind \in {"none", "rejected"}

\* C19: no chat ever holds a message of a request whose chat was deleted
\* while the request was suspended.
C19_NoStaleContent ==
    [][\A p \in pending :
         p.deleted =>
           \A c \in DOMAIN chats' : \A i \in 1..Len(chats'[c]) :
               chats'[c][i].rid # p.rid]_vars

\* the chats whose presence or history a step changes
C20_Changed ==
    {d \in DOMAIN chats \cup DOMAIN chats' :
        \/ d \notin DOMAIN chats
        \/ d \notin DOMAIN chats'
        \/ chats'[d] # chats[d]}

\* C20: a step of a POST or DELETE for one chatId changes no other chat;
\* GET /api/chats and GET /healthz change no chat.
C20_Isolation ==
    [][/\ res'.op \in {"GET /api/chats", "GET /healthz"} => chats' = chats
       /\ res'.op \in {"POST", "DELETE"} => C20_Changed \subseteq {res'.chatId}
       /\ res'.op = "none" => C20_Changed \subseteq {sent'.chatId}]_vars

\* a reply was stored in one chat while the other chat, with a request
\* still suspended on it, is in the map
C20_Witness ==
    /\ res.op = "POST"
    /\ res.status = 200
    /\ \E p \in pending :
         /\ p.chatId # res.chatId
         /\ p.chatId \in DOMAIN chats
         /\ Len(chats[p.chatId]) > 1

====
